---- MODULE Spec2Model ----
(***************************************************************************)
(* Model of the assessment and retrieval engine of inspector-ai-backend:   *)
(*   src/src/services/ai_analysis.py       (image and video analysis)      *)
(*   src/src/services/code_query_service.py (code queries)                 *)
(* and of the upload routes that call it:                                  *)
(*   src/src/routes/inspection.py, src/src/models/user.py                  *)
(*                                                                         *)
(* Conventions.  Confidences are kept in hundredths (0.85 is 85).  A key   *)
(* that a Python dict does not carry is the value Absent.  A step that can *)
(* raise a Python exception yields Raise or Ok(value), so that every try   *)
(* block of the source is a visible case split of the model.               *)
(***************************************************************************)
EXTENDS Integers, Sequences, FiniteSets, TLC

VARIABLES
    call,        \* the last completed call of a synchronous function: arguments and result
    files,       \* the temp_frames directory of the upload folder: the frame files that exist
    \* Per analyze_video call:
    pc,          \* where the call is: "idle", "read", "fps", "analyze", "returned"
    video,       \* the video it was given: whether it opens, the frame rate it reports
    cap,         \* its cv2.VideoCapture handle: "none", "open", "closed", "released"
    frame_count, \* extract_key_frames: frames read so far
    extracted_frames, \* extract_key_frames: the frame paths written so far
    frame_paths, \* analyze_video: the list extract_key_frames returned
    frame_analyses, \* analyze_video: the entries appended so far
    analysed,    \* the frame files handed to analyze_image so far, in order
    written,     \* the frame paths this call wrote
    model,       \* image_service.model: None or "loaded"
    result,      \* what analyze_video returned
    code_service, \* the CodeQueryService object: its nec_database and common_patterns
    \* The upload routes:
    user,        \* the row of the User table: tier, monthly_uploads, last_reset_date
    media,       \* per request, the InspectionImage / InspectionVideo row as committed
    request,     \* per request thread: where the handler is, its session's copy of the
                 \* user, the pending media record, the response
    now,         \* the calendar month of datetime.utcnow()
    accepted     \* image uploads answered 201 in the month `now`

callVars == <<pc, video, cap, frame_count, extracted_frames, frame_paths,
              frame_analyses, analysed, written, model, result>>

videoVars == <<files, callVars>>

routeVars == <<user, media, request, now, accepted>>

coreVars == <<call, code_service, videoVars>>

vars == <<call, files, callVars, code_service, routeVars>>

(***************************************************************************)
(* Bounds of the model.                                                    *)
(***************************************************************************)
MaxDetections == 3
MaxViolations == 4
MaxFrameResults == 3
MaxFrames == 61
MaxFramesConcurrent == 1
MaxQueryWords == 3
MaxKeywords == 2
MaxMatches == 3
MaxMonths == 2
MaxUploads == 2

Absent == "<absent>"
None == "None"

RECURSIVE SeqsUpTo(_, _)
SeqsUpTo(S, n) ==
    IF n = 0 THEN {<<>>}
    ELSE LET shorter == SeqsUpTo(S, n - 1)
         IN  shorter \cup {Append(s, x) : s \in {t \in shorter : Len(t) = n - 1}, x \in S}

\* A quotient of the floating-point divisions, kept exact.
Ratio(n, d) == [num |-> n, den |-> d]
Zero == Ratio(0, 1)

Reverse(s) == [i \in 1..Len(s) |-> s[Len(s) + 1 - i]]

(***************************************************************************)
(* Detections (ai_analysis.py:82-101).  A detection is a dict with a       *)
(* 'type' and a 'properties' dict; gfci is the 'gfci_protected' entry of   *)
(* the properties: "true", "false", Absent when the properties do not      *)
(* carry the key, and props = Absent when the dict has no 'properties'.    *)
(***************************************************************************)
component_classes ==
    {"outlet", "switch", "panel", "conduit", "junction_box",
     "wire", "breaker", "gfci_outlet", "light_fixture", "meter"}

Detection(t, p) == [type |-> t, props |-> p]

WellFormedDetections ==
    {Detection("outlet", "false"), Detection("outlet", "true"), Detection("outlet", "no_key"),
     Detection("junction_box", "no_key"), Detection("junction_box", "true"),
     Detection("switch", "no_key"), Detection("gfci_outlet", "false"),
     Detection("solar_inverter", "false")}

MalformedDetections ==
    {Detection(Absent, "no_key"), Detection("outlet", Absent), Detection("junction_box", Absent)}

Detections == WellFormedDetections \cup MalformedDetections

HasType(c) == c.type # Absent
HasProperties(c) == c.props # Absent

(***************************************************************************)
(* Violations (ai_analysis.py:119-137).                                    *)
(***************************************************************************)
Violation(kind, sev, ref, conf) ==
    [type |-> kind, severity |-> sev, code_reference |-> ref,
     component_id |-> None, confidence |-> conf]

GfciConfidence == 75
OvercrowdingConfidence == 60

missing_gfci == Violation("missing_gfci", "high", "NEC 210.8", GfciConfidence)
potential_overcrowding ==
    Violation("potential_overcrowding", "medium", "NEC 314.16", OvercrowdingConfidence)

\* Mutant: an outlet whose properties do not say is taken as protected.
gfci_protected_unless_false(c) == c.props # "false"

\* component['properties'].get('gfci_protected', False)
gfci_protected(c) == c.props = "true"

\* The outcome of a step that may raise: the value it yields, or Raise.
Ok(v) == [raised |-> FALSE, value |-> v]
Raise == [raised |-> TRUE]

\* The outlet branch (lines 116-126): component['properties'] raises KeyError
\* when the detection has no properties.
OutletRule(component) ==
    IF ~HasProperties(component) THEN Raise
    ELSE IF ~gfci_protected(component) THEN Ok(<<missing_gfci>>) ELSE Ok(<<>>)

\* Mutant: a junction box that carries a positive property is not flagged.
JunctionBoxRuleIfUnverified(component) ==
    IF component.props = "true" THEN Ok(<<>>) ELSE Ok(<<potential_overcrowding>>)

\* The junction_box branch (lines 128-137): appended whatever the properties.
JunctionBoxRule(component) == Ok(<<potential_overcrowding>>)

\* One iteration of the loop of check_code_violations: Raise when a
\* subscript fails (KeyError), otherwise the violations that are appended.
RuleStep(component) ==
    IF ~HasType(component) THEN Raise
    ELSE IF component.type = "outlet" THEN OutletRule(component)
    ELSE IF component.type = "junction_box" THEN JunctionBoxRule(component)
    ELSE Ok(<<>>)

RECURSIVE RuleLoop(_, _)
RuleLoop(components, violations) ==
    IF components = <<>> THEN Ok(violations)
    ELSE LET step == RuleStep(Head(components))
         IN  IF step.raised THEN Raise
             ELSE RuleLoop(Tail(components), violations \o step.value)

\* Mutant: a rule engine that stops at the first violation it finds.
check_code_violations_first_only(components) ==
    LET body == RuleLoop(components, <<>>)
    IN  IF body.raised \/ body.value = <<>> THEN <<>> ELSE <<Head(body.value)>>

\* try: ... return violations / except Exception: return []
check_code_violations(components) ==
    LET body == RuleLoop(components, <<>>)
    IN  IF body.raised THEN <<>> ELSE body.value

(***************************************************************************)
(* calculate_overall_assessment (ai_analysis.py:145-179).                  *)
(***************************************************************************)
FailConfidence == 85
WarningConfidence == 70
PassConfidence == 90

\* The empty dict {} of the error records.
EmptySummary == [empty |-> TRUE]

\* Mutant: the warning rung taken at 2 medium violations already.
MediumThresholdOffByOne == 2 - 1

\* elif len(medium_severity_violations) > 2
MediumThreshold == 2

\* v['severity'] raises KeyError on a violation without a severity; the
\* except branch (lines 173-179) then returns the error record.
calculate_overall_assessment(components, violations) ==
    IF \E i \in 1..Len(violations) : violations[i].severity = Absent
    THEN [overall_result |-> "error", confidence |-> 0, summary |-> EmptySummary]
    ELSE LET high_severity_violations == SelectSeq(violations, LAMBDA v : v.severity = "high")
             medium_severity_violations == SelectSeq(violations, LAMBDA v : v.severity = "medium")
             verdict ==
                 IF Len(high_severity_violations) > 0
                 THEN [overall_result |-> "fail", confidence |-> FailConfidence]
                 ELSE IF Len(medium_severity_violations) > MediumThreshold
                      THEN [overall_result |-> "warning", confidence |-> WarningConfidence]
                      ELSE [overall_result |-> "pass", confidence |-> PassConfidence]
         IN  [overall_result |-> verdict.overall_result,
              confidence |-> verdict.confidence,
              summary |-> [components_detected |-> Len(components),
                           violations_found |-> Len(violations),
                           high_severity |-> Len(high_severity_violations),
                           medium_severity |-> Len(medium_severity_violations)]]

(***************************************************************************)
(* _generate_recommendations (ai_analysis.py:235-252).  A sentence is a    *)
(* tuple of its parts, so that the generic sentence keeps the kind and the *)
(* reference it is formatted from.                                         *)
(***************************************************************************)
GfciSentence == <<"Install GFCI protection for outlets in wet locations (bathrooms, kitchens, garages, etc.)">>
BoxSentence == <<"Verify junction box fill calculations per NEC 314.16 and consider larger box if needed">>
GroundingSentence == <<"Ensure proper grounding connections per NEC Article 250">>
VerifySentence == <<"Installation appears to meet basic code requirements. Consider professional inspection for final verification.">>

\* violation.get('code_reference', 'NEC')
ReferenceOf(violation) ==
    IF violation.code_reference = Absent THEN "NEC" ELSE violation.code_reference

GenericSentence(violation) == <<"Address ", violation.type, " - refer to ", ReferenceOf(violation)>>

RecommendationFor(violation) ==
    IF violation.type = "missing_gfci" THEN GfciSentence
    ELSE IF violation.type = "potential_overcrowding" THEN BoxSentence
    ELSE IF violation.type = "improper_grounding" THEN GroundingSentence
    ELSE GenericSentence(violation)

\* Mutant: the closing 'if not violations' branch left out.
RecommendationsWithoutDefault(violations) ==
    [i \in 1..Len(violations) |-> RecommendationFor(violations[i])]

_generate_recommendations(violations) ==
    LET recommendations == [i \in 1..Len(violations) |-> RecommendationFor(violations[i])]
    IN  IF violations = <<>> THEN Append(recommendations, VerifySentence)
        ELSE recommendations

(***************************************************************************)
(* analyze_image (ai_analysis.py:181-233) and the steps it calls.  What    *)
(* the environment decides for one call is an ImageEnv: whether building   *)
(* the model raises (load_model), whether the file decodes                 *)
(* (preprocess_image), what the detector yields or that it raises          *)
(* (detect_components), and whether reading the metadata (tf.timestamp,    *)
(* Image.open(...).size, lines 217-218) raises.                            *)
(***************************************************************************)
ImageEnv(load_raises, decodable, detector, metadata_raises) ==
    [load_raises |-> load_raises, decodable |-> decodable,
     detector |-> detector, metadata_raises |-> metadata_raises]

\* The detections the mock detector returns (lines 82-101).
MockDetections == <<Detection("outlet", "false"), Detection("switch", "no_key")>>

\* load_model (lines 26-41): the exception is caught and the model stays None.
load_model(env) == IF env.load_raises THEN None ELSE "loaded"

\* if self.model is None: self.load_model()   (lines 188-189)
ModelAfter(m, env) == IF m = None THEN load_model(env) ELSE m

\* preprocess_image (lines 54-76): re-raises what Image.open raised.
preprocess_image(env) == IF env.decodable THEN Ok("image_array") ELSE Raise

\* detect_components (lines 78-107): try: return detections / except: return []
detect_components(env) == IF env.detector.raised THEN <<>> ELSE env.detector.value

ImageErrorRecord ==
    [detected_components |-> <<>>, violations_found |-> <<>>, overall_result |-> "error",
     overall_confidence |-> 0, summary |-> EmptySummary, recommendations |-> <<>>,
     error |-> TRUE]

\* Mutant: the exception leaves analyze_image instead of being turned into a record.
analyze_image_reraise == Raise

\* except Exception as e: return {... 'overall_result': 'error' ...}   (lines 224-233)
analyze_image_except == Ok(ImageErrorRecord)

\* The try block (lines 186-222).
analyze_image_try(env) ==
    LET image_array == preprocess_image(env)
    IN  IF image_array.raised THEN Raise
        ELSE LET components == detect_components(env)
                 violations == check_code_violations(components)
                 assessment == calculate_overall_assessment(components, violations)
             IN  IF env.metadata_raises THEN Raise
                 ELSE Ok([detected_components |-> components,
                          violations_found |-> violations,
                          overall_result |-> assessment.overall_result,
                          overall_confidence |-> assessment.confidence,
                          summary |-> assessment.summary,
                          recommendations |-> _generate_recommendations(violations),
                          error |-> FALSE])

analyze_image(env) ==
    LET body == analyze_image_try(env)
    IN  IF body.raised THEN analyze_image_except ELSE body

(***************************************************************************)
(* Code queries (code_query_service.py).  A query is a Python str, kept as *)
(* a TLA+ string and read character by character; a caller may also hand   *)
(* process_query something that is not a str.                              *)
(***************************************************************************)
Str(text) == [is_str |-> TRUE, text |-> text]
NotAStr == [is_str |-> FALSE]

UpperCase == "ABCDEFGHIJKLMNOPQRSTUVWXYZ"
LowerCase == "abcdefghijklmnopqrstuvwxyz"
Digits == "0123456789"

Char(s, i) == SubSeq(s, i, i)
IndexIn(alphabet, ch) == {i \in 1..Len(alphabet) : Char(alphabet, i) = ch}

LowerChar(ch) ==
    IF IndexIn(UpperCase, ch) = {} THEN ch
    ELSE Char(LowerCase, CHOOSE i \in IndexIn(UpperCase, ch) : TRUE)

\* str.lower()
RECURSIVE lower(_)
lower(s) == IF s = "" THEN "" ELSE LowerChar(Head(s)) \o lower(Tail(s))

\* The positions at which t occurs in s.
Occurrences(s, t) ==
    {i \in 1..(Len(s) - Len(t) + 1) : SubSeq(s, i, i + Len(t) - 1) = t}

\* t in s
Contains(s, t) == Occurrences(s, t) # {}

\* The position of the first newline of s, or Len(s) + 1.
FirstNewline(s) ==
    LET at == Occurrences(s, "\n")
    IN  IF at = {} THEN Len(s) + 1 ELSE CHOOSE i \in at : \A j \in at : i <= j

\* The index (lines 17-51), in insertion order.  The texts are abbreviated;
\* titles, subsection ids and keywords are the source's.
Section(id, title, subsections, keywords) ==
    [id |-> id, title |-> title, subsections |-> subsections, keywords |-> keywords]

nec_database ==
    <<Section("210.8", "Ground-Fault Circuit-Interrupter Protection for Personnel",
              <<"210.8(A)", "210.8(B)">>,
              <<"gfci", "ground fault", "protection", "bathroom", "kitchen", "garage",
                "outdoor", "basement">>),
      Section("250.66", "Size of Alternating-Current Grounding Electrode Conductor",
              <<>>, <<"grounding", "electrode", "conductor", "size", "table">>),
      Section("314.16",
              "Number of Conductors in Outlet, Device, and Junction Boxes, and Conduit Bodies",
              <<>>,
              <<"box fill", "conductors", "junction box", "outlet box", "volume",
                "calculation">>),
      Section("240.21", "Location in Circuit",
              <<>>, <<"overcurrent", "protection", "breaker", "fuse", "conductor">>),
      Section("110.26", "Spaces About Electrical Equipment",
              <<>>,
              <<"clearance", "working space", "electrical equipment", "panel", "access">>)>>

\* self.nec_database.get(section_id, {}) / self.nec_database[section_id]
Lookup(db, id) == {i \in 1..Len(db) : db[i].id = id}
SectionOf(db, id) == db[CHOOSE i \in Lookup(db, id) : TRUE]

\* The fast-path patterns (lines 53-76).  Each regular expression has the
\* shape (?i).*(?:a1|a2|..).*(?:b1|b2|..).*
Pattern(firsts, seconds, template, reference) ==
    [firsts |-> firsts, seconds |-> seconds, response_template |-> template,
     primary_reference |-> reference]

common_patterns ==
    <<Pattern({"gfci"}, {"required", "need", "install"},
              "GFCI protection is required in specific locations per NEC 210.8. ...", "210.8"),
      Pattern({"grounding", "ground"}, {"size", "conductor", "wire"},
              "The size of the grounding electrode conductor is determined by NEC Table 250.66, ...",
              "250.66"),
      Pattern({"box fill", "junction box", "outlet box"}, {"calculation", "size", "conductors"},
              "Box fill calculations are covered in NEC 314.16. ...", "314.16"),
      Pattern({"clearance", "working space", "panel"}, {"distance", "feet", "inches"},
              "Working space requirements are specified in NEC 110.26. ...", "110.26")>>

\* re.match(pattern, query): the match starts at the first character, '.'
\* stands for any character but a newline, letters match in either case.
re_match(pattern, query) ==
    LET s == lower(query)
        line_end == FirstNewline(s)
    IN  \E a \in pattern.firsts, b \in pattern.seconds :
           \E i \in Occurrences(s, a), j \in Occurrences(s, b) :
              i + Len(a) <= j /\ j + Len(b) - 1 < line_end

PatternConfidence == 85

\* Mutant: the loop runs to its end, so the last pattern that matches is kept.
_match_query_patterns_last(patterns, query) ==
    LET hits == {k \in 1..Len(patterns) : re_match(patterns[k], query)}
    IN  IF hits = {} THEN [matched |-> FALSE]
        ELSE LET last == CHOOSE k \in hits : \A m \in hits : k >= m
             IN  [matched |-> TRUE,
                  response |-> patterns[last].response_template,
                  primary_reference |-> patterns[last].primary_reference,
                  confidence |-> Ratio(PatternConfidence, 100)]

\* _match_query_patterns (lines 117-127): the first pattern that matches.
_match_query_patterns(patterns, query) ==
    LET hits == {k \in 1..Len(patterns) : re_match(patterns[k], query)}
    IN  IF hits = {} THEN [matched |-> FALSE]
        ELSE LET first == CHOOSE k \in hits : \A m \in hits : k <= m
             IN  [matched |-> TRUE,
                  response |-> patterns[first].response_template,
                  primary_reference |-> patterns[first].primary_reference,
                  confidence |-> Ratio(PatternConfidence, 100)]

stop_words ==
    {"the", "a", "an", "and", "or", "but", "in", "on", "at", "to", "for", "of", "with",
     "by", "is", "are", "was", "were", "be", "been", "have", "has", "had", "do", "does",
     "did", "will", "would", "could", "should", "may", "might", "must", "can", "what",
     "when", "where", "why", "how"}

\* \w of the regular expression, on lower-cased text.
IsWordChar(ch) ==
    IndexIn(LowerCase, ch) # {} \/ IndexIn(Digits, ch) # {} \/ ch = "_"

\* re.findall(r'\b\w+\b', text): the maximal runs of word characters.
RECURSIVE findall_words(_, _, _)
findall_words(text, word, words) ==
    IF text = "" THEN (IF word = "" THEN words ELSE Append(words, word))
    ELSE IF IsWordChar(Head(text))
         THEN findall_words(Tail(text), word \o Head(text), words)
         ELSE findall_words(Tail(text), "",
                            IF word = "" THEN words ELSE Append(words, word))

MinKeywordLength == 2

\* _extract_keywords (lines 78-89)
_extract_keywords(query) ==
    LET words == findall_words(lower(query), "", <<>>)
    IN  SelectSeq(words, LAMBDA word : word \notin stop_words /\ Len(word) > MinKeywordLength)

\* Mutant: a pair of equal strings adds nothing.
PairScoreStrictSubstring(keyword, section_keyword) ==
    IF keyword # section_keyword
       /\ (Contains(section_keyword, keyword) \/ Contains(keyword, section_keyword))
    THEN 1
    ELSE 0

\* The contribution of one (query keyword, section keyword) pair (lines
\* 102-105): the substring test comes first, so the elif is reached only when
\* neither contains the other.
PairScore(keyword, section_keyword) ==
    IF Contains(section_keyword, keyword) \/ Contains(keyword, section_keyword) THEN 1
    ELSE IF keyword = section_keyword THEN 2
    ELSE 0

RECURSIVE SumOver(_, _, _)
SumOver(keywords, section_keywords, k) ==
    IF k > Len(keywords) * Len(section_keywords) THEN 0
    ELSE PairScore(keywords[((k - 1) \div Len(section_keywords)) + 1],
                   section_keywords[((k - 1) % Len(section_keywords)) + 1])
         + SumOver(keywords, section_keywords, k + 1)

RawScore(keywords, section_keywords) == SumOver(keywords, section_keywords, 1)

\* Comparison of two quotients with positive denominators.
Greater(x, y) == x.num * y.den > y.num * x.den

\* Mutant: a match goes in front of the matches of the same score.
RECURSIVE SortedInsertUnstable(_, _)
SortedInsertUnstable(sorted, m) ==
    IF sorted = <<>> THEN <<m>>
    ELSE IF ~Greater(Head(sorted).score, m.score) THEN <<m>> \o sorted
    ELSE <<Head(sorted)>> \o SortedInsertUnstable(Tail(sorted), m)

\* matches.sort(key=lambda x: x[1], reverse=True): stable, so a match goes
\* behind every match that is not smaller.
RECURSIVE SortedInsert(_, _)
SortedInsert(sorted, m) ==
    IF sorted = <<>> THEN <<m>>
    ELSE IF Greater(m.score, Head(sorted).score) THEN <<m>> \o sorted
    ELSE <<Head(sorted)>> \o SortedInsert(Tail(sorted), m)

RECURSIVE SortDescending(_, _)
SortDescending(matches, sorted) ==
    IF matches = <<>> THEN sorted
    ELSE SortDescending(Tail(matches), SortedInsert(sorted, Head(matches)))

TopMatches == 3

\* Mutant: the test `if score > 0` of line 107 left out.
scored_matches_all(db, keywords) ==
    [i \in 1..Len(db) |->
        [section |-> db[i].id,
         raw |-> RawScore(keywords, db[i].keywords),
         score |-> Ratio(RawScore(keywords, db[i].keywords),
                         Len(keywords) + Len(db[i].keywords))]]

\* The loop of _search_nec_sections (lines 95-110): the list `matches` before
\* it is sorted, one entry per section whose score is above 0.
scored_matches(db, keywords) ==
    LET scored == [i \in 1..Len(db) |->
                      [section |-> db[i].id,
                       raw |-> RawScore(keywords, db[i].keywords),
                       score |-> Ratio(RawScore(keywords, db[i].keywords),
                                       Len(keywords) + Len(db[i].keywords))]]
    IN  SelectSeq(scored, LAMBDA m : m.raw > 0)

\* _search_nec_sections (lines 91-115)
_search_nec_sections(db, keywords) ==
    LET sorted == SortDescending(scored_matches(db, keywords), <<>>)
    IN  SubSeq(sorted, 1, IF Len(sorted) < TopMatches THEN Len(sorted) ELSE TopMatches)

Reference(section, title, relevance) ==
    [section |-> section, title |-> title, relevance |-> relevance]

\* x * 1.2 and x * 0.9
Times(x, n, d) == Ratio(x.num * n, x.den * d)

ConfidenceCap == Ratio(95, 100)
NoMatchConfidence == Ratio(1, 10)

\* Mutant: the confidence capped at 1.0.
response_confidence_capped_at_one(primary_score) ==
    LET scaled == Times(primary_score, 12, 10)
    IN  IF Greater(scaled, Ratio(1, 1)) THEN Ratio(1, 1) ELSE scaled

\* min(relevant_sections[0][1] * 1.2, 0.95) (line 175)
response_confidence(primary_score) ==
    LET scaled == Times(primary_score, 12, 10)
    IN  IF Greater(scaled, ConfidenceCap) THEN ConfidenceCap ELSE scaled

\* Mutant: a subsection cited at the relevance of its section.
subsection_references_undiscounted(primary_data, primary_score) ==
    [i \in 1..Len(primary_data.subsections) |->
        Reference(primary_data.subsections[i],
                  primary_data.title \o " - Subsection",
                  primary_score)]

\* The references of the primary section's subsections (lines 155-162).
subsection_references(primary_data, primary_score) ==
    [i \in 1..Len(primary_data.subsections) |->
        Reference(primary_data.subsections[i],
                  primary_data.title \o " - Subsection",
                  Times(primary_score, 9, 10))]

\* _generate_response (lines 129-181).  The response text is the sequence of
\* its parts.
_generate_response(db, query, relevant_sections) ==
    IF relevant_sections = <<>>
    THEN [response |-> <<<<"I couldn't find specific information about your query">>>>,
          references |-> <<>>, confidence |-> NoMatchConfidence]
    ELSE LET primary_section == relevant_sections[1].section
             primary_data == SectionOf(db, primary_section)
             primary_score == relevant_sections[1].score
             rest == Tail(relevant_sections)
             response ==
                 <<<<"According to NEC ", primary_section, primary_data.title>>>>
                 \o [i \in 1..Len(primary_data.subsections) |->
                        <<"subsection", primary_data.subsections[i]>>]
                 \o [i \in 1..Len(rest) |->
                        <<"Also see NEC ", rest[i].section, SectionOf(db, rest[i].section).title>>]
             references ==
                 <<Reference(primary_section, primary_data.title, primary_score)>>
                 \o subsection_references(primary_data, primary_score)
                 \o [i \in 1..Len(rest) |->
                        Reference(rest[i].section, SectionOf(db, rest[i].section).title,
                                  rest[i].score)]
         IN  [response |-> response, references |-> references,
              confidence |-> response_confidence(primary_score)]

ContainsAny(text, terms) == \E t \in terms : Contains(text, t)

PracticalTip == <<"Practical Tip: Always verify local code requirements ...">>
SafetyNote == <<"Safety Note: GFCI devices should be tested monthly ...">>
SizingNote == <<"Sizing Note: Always consider voltage drop calculations ...">>

\* Mutant: the three tests chained by elif, so at most one sentence is added.
_enhance_response_first_family(response_data, query) ==
    LET text == lower(query)
    IN  [response_data EXCEPT !.response =
            @ \o (IF ContainsAny(text, {"install", "installation", "how to"})
                  THEN <<PracticalTip>>
                  ELSE IF ContainsAny(text, {"gfci", "ground fault"}) THEN <<SafetyNote>>
                  ELSE IF ContainsAny(text, {"wire size", "conductor size", "ampacity"})
                       THEN <<SizingNote>>
                  ELSE <<>>)]

\* _enhance_response_with_context (lines 183-198)
_enhance_response_with_context(response_data, query) ==
    LET text == lower(query)
        tip == IF ContainsAny(text, {"install", "installation", "how to"})
               THEN <<PracticalTip>> ELSE <<>>
        safety == IF ContainsAny(text, {"gfci", "ground fault"}) THEN <<SafetyNote>> ELSE <<>>
        sizing == IF ContainsAny(text, {"wire size", "conductor size", "ampacity"})
                  THEN <<SizingNote>> ELSE <<>>
    IN  [response_data EXCEPT !.response = @ \o tip \o safety \o sizing]

\* except Exception as e: return {... 'references': [], 'confidence': 0.0 ...}
\* (lines 243-249)
process_query_except ==
    Ok([response |-> <<<<"I encountered an error processing your query">>>>,
        references |-> <<>>, confidence |-> Zero, error |-> TRUE])

\* The try block of process_query (lines 205-241).  re.match raises TypeError
\* on a query that is not a str.
process_query_try(db, patterns, query) ==
    IF ~query.is_str THEN Raise
    ELSE LET pattern_match == _match_query_patterns(patterns, query.text)
         IN  IF pattern_match.matched
             THEN LET found == Lookup(db, pattern_match.primary_reference)
                      title == IF found = {} THEN "NEC Section"
                               ELSE SectionOf(db, pattern_match.primary_reference).title
                  IN  Ok(_enhance_response_with_context(
                             [response |-> <<<<pattern_match.response>>>>,
                              references |-> <<Reference(pattern_match.primary_reference,
                                                         title, pattern_match.confidence)>>,
                              confidence |-> pattern_match.confidence,
                              error |-> FALSE],
                             query.text))
             ELSE LET keywords == _extract_keywords(query.text)
                  IN  IF keywords = <<>>
                      THEN Ok([response |-> <<<<"I need more specific information to help you.">>>>,
                               references |-> <<>>, confidence |-> NoMatchConfidence,
                               error |-> FALSE])
                      ELSE LET relevant_sections == _search_nec_sections(db, keywords)
                               response_data ==
                                   _generate_response(db, query.text, relevant_sections)
                           IN  Ok(_enhance_response_with_context(
                                      [response |-> response_data.response,
                                       references |-> response_data.references,
                                       confidence |-> response_data.confidence,
                                       error |-> FALSE],
                                      query.text))

process_query(db, patterns, query) ==
    LET body == process_query_try(db, patterns, query)
    IN  IF body.raised THEN process_query_except ELSE body

\* CodeQueryService.__init__ (lines 13-15): the object holds the index and
\* the patterns.
CodeQueryService(db) == [nec_database |-> db, common_patterns |-> common_patterns]

\* Mutant: the write in place of line 197 lands in the matched pattern.
process_query_self_aliased(self, query) ==
    IF ~query.is_str THEN self
    ELSE LET hits == {k \in 1..Len(self.common_patterns) :
                         re_match(self.common_patterns[k], query.text)}
         IN  IF hits = {} THEN self
             ELSE LET first == CHOOSE k \in hits : \A m \in hits : k <= m
                  IN  [self EXCEPT !.common_patterns[first].response_template =
                                       @ \o SafetyNote[1]]

\* The service object after process_query(query) (lines 200-249).  No
\* attribute of self is assigned; the one write in place (line 197) goes to
\* the dict built at lines 211-219 or to the one _generate_response built,
\* and neither is part of nec_database or common_patterns.
process_query_self(self, query) == self

(***************************************************************************)
(* Inputs of the synchronous functions.                                    *)
(***************************************************************************)
DetectionLists == SeqsUpTo(Detections, MaxDetections)

WellFormed(components) ==
    \A i \in 1..Len(components) : components[i] \in WellFormedDetections

\* Violations as the data model has them: the two the rule engine emits and
\* others of the extensible kinds, of every severity, one without a reference.
ViolationUniverse ==
    {missing_gfci, potential_overcrowding,
     Violation("improper_grounding", "medium", "NEC 250.4", 80),
     Violation("improper_grounding", "low", "NEC 250.4", 55),
     Violation("safety_hazard", "high", "NEC 110.12", 90),
     Violation("safety_hazard", "low", Absent, 40)}

ViolationLists == SeqsUpTo(ViolationUniverse, MaxViolations)

Relabel(v) == [v EXCEPT !.type = "code_violation", !.code_reference = "NEC 110.3"]

\* Other violation lists to compare a list with: same members in another
\* order, without the low ones, with other kinds; and one with a member less.
Variants(vs) ==
    {Reverse(vs), SelectSeq(vs, LAMBDA v : v.severity # "low"),
     [i \in 1..Len(vs) |-> Relabel(vs[i])],
     IF vs = <<>> THEN <<>> ELSE Tail(vs)}

ComponentInputs == {<<>>, MockDetections}

ImageEnvs ==
    {ImageEnv(l, FALSE, Ok(<<>>), FALSE) : l \in BOOLEAN}
    \cup {ImageEnv(l, TRUE, Raise, m) : l \in BOOLEAN, m \in BOOLEAN}
    \cup {ImageEnv(l, TRUE, Ok(ds), m) : l \in BOOLEAN, m \in BOOLEAN, ds \in DetectionLists}

\* Queries: up to MaxQueryWords different phrases joined by blanks, in any
\* order, and single queries: the breaker example, stop words only, short
\* words only, and two that match the first two patterns at once.
QueryPhrases == {"GFCI", "required", "How to install", "grounding", "wire size", "\n"}

ExampleQueries ==
    {"What size breaker do I need for a 20 amp circuit?",
     "the", "how to", "Is it OK",
     "GFCI grounding wire size required",
     "grounding wire size GFCI required",
     "box box box box"}

RECURSIVE Join(_)
Join(phrases) ==
    IF phrases = <<>> THEN ""
    ELSE IF Len(phrases) = 1 THEN phrases[1]
    ELSE phrases[1] \o " " \o Join(Tail(phrases))

Injective(s) == \A i, j \in 1..Len(s) : s[i] = s[j] => i = j

Queries ==
    {Str(Join(ps)) : ps \in {s \in SeqsUpTo(QueryPhrases, MaxQueryWords) : Injective(s)}}
    \cup {Str(q) : q \in ExampleQueries} \cup {NotAStr}

\* Other contents of the index: without entry 210.8, and empty.
Indexes == {nec_database, Tail(nec_database), <<>>}

\* Keyword lists as _extract_keywords yields them: lower-case words of 3 or
\* more characters that are no stop words.
KeywordVocabulary ==
    {"conductor", "protection", "panel", "breaker", "breakers", "box", "required"}

\* One token repeated, as _extract_keywords returns it for "box box box box".
RepeatedKeywords == <<"box", "box", "box", "box">>

KeywordLists == SeqsUpTo(KeywordVocabulary, MaxKeywords) \cup {RepeatedKeywords}

\* Match lists over the first sections of an index, in any order.
MatchScores == {Ratio(1, 10), Ratio(4, 5)}

MatchUniverse(db) ==
    {[section |-> db[i].id, score |-> sc] :
        i \in 1..(IF Len(db) < TopMatches THEN Len(db) ELSE TopMatches), sc \in MatchScores}

MatchLists(db) == SeqsUpTo(MatchUniverse(db), MaxMatches)

\* Response data handed to _enhance_response_with_context.
ResponseData ==
    {[response |-> <<<<"I couldn't find specific information about your query">>>>,
      references |-> <<>>, confidence |-> NoMatchConfidence],
     [response |-> <<<<"According to NEC ", "250.66", "Size">>>>,
      references |-> <<Reference("250.66", "Size", Ratio(1, 7))>>,
      confidence |-> Ratio(12, 70)]}

NoCall == [fn |-> "none"]

(***************************************************************************)
(* Video analysis (ai_analysis.py:255-397).                                *)
(***************************************************************************)
Calls == {"c1", "c2"}

\* self.frame_extraction_interval = 30   (line 263)
frame_extraction_interval == 30

\* A timestamp divided by a frame rate of 25 instead of the literal 30.0.
AssumedFpsOfContainer == 30 - 5

\* 'timestamp': (i * self.frame_extraction_interval) / 30.0   (line 328)
AssumedFps == 30

NoVideo == [opens |-> FALSE, fps |-> 0, given |-> FALSE]
NoResult == [returned |-> FALSE]

\* A video file: whether cv2 can open it and the frame rate its container
\* reports.  How many frames it decodes to shows as the capture is read.
Videos ==
    {[opens |-> FALSE, fps |-> 0, given |-> TRUE]}
    \cup {[opens |-> TRUE, fps |-> f, given |-> TRUE] : f \in {-1, 0, 25}}

\* What analyze_image will meet on a frame still: a frame file is written
\* together with what it shows.
ThreeBoxes == <<Detection("junction_box", "no_key"), Detection("junction_box", "no_key"),
                Detection("junction_box", "true")>>

FrameScenes ==
    {ImageEnv(FALSE, TRUE, Ok(<<>>), FALSE),
     ImageEnv(FALSE, TRUE, Ok(MockDetections), FALSE),
     ImageEnv(FALSE, TRUE, Ok(ThreeBoxes), FALSE),
     ImageEnv(FALSE, FALSE, Ok(<<>>), FALSE),
     ImageEnv(TRUE, TRUE, Raise, FALSE)}

\* The scene of a frame file that is no longer there: Image.open raises.
MissingFile == ImageEnv(FALSE, FALSE, Ok(<<>>), FALSE)

FileAt(path) == {f \in files : f.path = path}
Exists(path) == FileAt(path) # {}

\* cv2.imwrite(frame_path, frame): creates the file or replaces the one there.
imwrite(path, c, scene) ==
    {f \in files : f.path # path} \cup {[path |-> path, by |-> c, scene |-> scene]}

\* cap.get(cv2.CAP_PROP_FPS) (line 292) is called after cap.release() (line
\* 289): a capture that is not open reports 0.
CapGetFps(capState, v) == IF capState = "open" THEN v.fps ELSE 0

\* duration = frame_count / fps if fps > 0 else 0   (line 293)
DurationOf(count, fps) == IF fps > 0 THEN Ratio(count, fps) ELSE Zero

\* Mutant: the last rung passes the video when some frame passed.
AnyPass(results) == \E i \in 1..Len(results) : results[i] = "pass"

\* all(result == 'pass' for result in results)   (line 379)
AllPass(results) == \A i \in 1..Len(results) : results[i] = "pass"

\* frame['analysis'].get('overall_result', 'unknown')   (line 370)
ResultOf(frame) ==
    IF frame.analysis.overall_result = Absent THEN "unknown"
    ELSE frame.analysis.overall_result

\* _calculate_video_assessment (lines 365-382)
_calculate_video_assessment(analyses) ==
    IF analyses = <<>> THEN "error"
    ELSE LET results == [i \in 1..Len(analyses) |-> ResultOf(analyses[i])]
         IN  IF \E i \in 1..Len(results) : results[i] = "fail" THEN "fail"
             ELSE IF \E i \in 1..Len(results) : results[i] = "warning" THEN "warning"
             ELSE IF AllPass(results) THEN "pass"
             ELSE "warning"

\* _cleanup_temp_frames (lines 384-397): every listed path that exists is
\* removed (os.remove is taken to succeed), whoever wrote the file.
_cleanup_temp_frames(paths) ==
    {f \in files : \A i \in 1..Len(paths) : paths[i] # f.path}

RECURSIVE SumLen(_, _)
SumLen(analyses, field) ==
    IF analyses = <<>> THEN 0
    ELSE Len(Head(analyses).analysis[field]) + SumLen(Tail(analyses), field)

VideoErrorRecord ==
    [returned |-> TRUE, frame_analyses |-> <<>>, overall_result |-> "error",
     duration |-> Zero, summary |-> EmptySummary, error |-> TRUE]

\* A request handed to analyze_video (routes/inspection.py:191-192 builds a
\* new VideoAnalysisService): extract_key_frames opens the capture
\* (lines 268-274).
StartVideo(c) ==
    /\ call = NoCall
    /\ pc[c] = "idle"
    /\ \E v \in Videos :
          /\ video' = [video EXCEPT ![c] = v]
          /\ cap' = [cap EXCEPT ![c] = IF v.opens THEN "open" ELSE "closed"]
    /\ pc' = [pc EXCEPT ![c] = "read"]
    /\ UNCHANGED <<call, code_service, routeVars, files, frame_count, extracted_frames, frame_paths,
                   frame_analyses, analysed, written, model, result>>

\* One iteration of the extraction loop in which cap.read() yields a frame
\* (lines 277-287): every 30th frame is written to temp_frames/frame_<n>.jpg.
ReadFrameUpTo(c, limit) ==
    /\ pc[c] = "read"
    /\ cap[c] = "open"
    /\ frame_count[c] < limit
    /\ IF frame_count[c] % frame_extraction_interval = 0
       THEN \E scene \in FrameScenes :
               /\ files' = imwrite(frame_count[c], c, scene)
               /\ extracted_frames' =
                     [extracted_frames EXCEPT ![c] = Append(@, frame_count[c])]
               /\ written' = [written EXCEPT ![c] = @ \cup {frame_count[c]}]
       ELSE UNCHANGED <<files, extracted_frames, written>>
    /\ frame_count' = [frame_count EXCEPT ![c] = @ + 1]
    /\ UNCHANGED <<call, code_service, routeVars, pc, video, cap, frame_paths, frame_analyses, analysed,
                   model, result>>

ReadFrame(c) == ReadFrameUpTo(c, MaxFrames)

\* analyze_video once extract_key_frames has returned (frame_paths, duration):
\* with no frame path it returns its error record (lines 310-316), otherwise
\* it goes on to analyse the frames.
AfterExtraction(c, paths, dur) ==
    /\ frame_paths' = [frame_paths EXCEPT ![c] = paths]
    /\ IF paths = <<>>
       THEN /\ result' = [result EXCEPT ![c] = VideoErrorRecord]
            /\ pc' = [pc EXCEPT ![c] = "returned"]
       ELSE /\ result' = [result EXCEPT ![c] = [returned |-> FALSE, duration |-> dur]]
            /\ pc' = [pc EXCEPT ![c] = "analyze"]

\* Mutant: the except branch hands back the frames written before the exception.
extract_except_partial(c) == extracted_frames[c]

\* except Exception: return [], 0   (lines 297-299): the list that is returned.
extract_except(c) == <<>>

\* cap.read() or cv2.imwrite raises inside the loop: the except branch of
\* extract_key_frames returns; the capture is not released.
ExtractRaises(c) ==
    /\ pc[c] = "read"
    /\ AfterExtraction(c, extract_except(c), Zero)
    /\ UNCHANGED <<call, code_service, routeVars, files, video, cap, frame_count, extracted_frames,
                   frame_analyses, analysed, written, model>>

\* cap.read() yields no frame: the loop ends and the capture is released
\* (lines 278-279, 289).
ReleaseCapture(c) ==
    /\ pc[c] = "read"
    /\ cap' = [cap EXCEPT ![c] = "released"]
    /\ pc' = [pc EXCEPT ![c] = "fps"]
    /\ UNCHANGED <<call, code_service, routeVars, files, video, frame_count, extracted_frames, frame_paths,
                   frame_analyses, analysed, written, model, result>>

\* The frame rate is read from the capture, the duration is computed and
\* extract_key_frames returns (lines 292-295).
FinishExtraction(c) ==
    /\ pc[c] = "fps"
    /\ AfterExtraction(c, extracted_frames[c],
                       DurationOf(frame_count[c], CapGetFps(cap[c], video[c])))
    /\ UNCHANGED <<call, code_service, routeVars, files, video, cap, frame_count, extracted_frames,
                   frame_analyses, analysed, written, model>>

\* One iteration of the analysis loop (lines 323-338): analyze_image on the
\* file now at the frame path; an exception from it would skip the frame.
AnalyzeFrame(c) ==
    /\ pc[c] = "analyze"
    /\ Len(analysed[c]) < Len(frame_paths[c])
    /\ LET i == Len(analysed[c])
           frame_path == frame_paths[c][i + 1]
           env == IF Exists(frame_path)
                  THEN (CHOOSE f \in FileAt(frame_path) : TRUE).scene
                  ELSE MissingFile
           by == IF Exists(frame_path)
                 THEN (CHOOSE f \in FileAt(frame_path) : TRUE).by
                 ELSE Absent
           frame_analysis == analyze_image(env)
       IN  /\ analysed' = [analysed EXCEPT ![c] =
                              Append(@, [path |-> frame_path, by |-> by, env |-> env])]
           /\ model' = [model EXCEPT ![c] = ModelAfter(@, env)]
           /\ frame_analyses' =
                 IF frame_analysis.raised THEN frame_analyses
                 ELSE [frame_analyses EXCEPT ![c] =
                          Append(@, [frame_number |-> i * frame_extraction_interval,
                                     timestamp |-> Ratio(i * frame_extraction_interval,
                                                         AssumedFps),
                                     analysis |-> frame_analysis.value])]
    /\ UNCHANGED <<call, code_service, routeVars, files, pc, video, cap, frame_count, extracted_frames,
                   frame_paths, written, result>>

\* After the loop (lines 340-355): the fold, the cleanup and the return.
Aggregate(c) ==
    /\ pc[c] = "analyze"
    /\ Len(analysed[c]) = Len(frame_paths[c])
    /\ files' = _cleanup_temp_frames(frame_paths[c])
    /\ result' = [result EXCEPT ![c] =
          [returned |-> TRUE,
           frame_analyses |-> frame_analyses[c],
           overall_result |-> _calculate_video_assessment(frame_analyses[c]),
           duration |-> result[c].duration,
           summary |-> [frames_analyzed |-> Len(frame_analyses[c]),
                        total_components |-> SumLen(frame_analyses[c], "detected_components"),
                        total_violations |-> SumLen(frame_analyses[c], "violations_found")],
           error |-> FALSE]]
    /\ pc' = [pc EXCEPT ![c] = "returned"]
    /\ UNCHANGED <<call, code_service, routeVars, video, cap, frame_count, extracted_frames, frame_paths,
                   frame_analyses, analysed, written, model>>

analyze_video(c) ==
    \/ StartVideo(c)
    \/ ReadFrame(c)
    \/ ExtractRaises(c)
    \/ ReleaseCapture(c)
    \/ FinishExtraction(c)
    \/ AnalyzeFrame(c)
    \/ Aggregate(c)

(***************************************************************************)
(* The upload routes (routes/inspection.py:59-213) and the upload quota    *)
(* of the user (models/user.py:38-55).  Each request runs in its own       *)
(* thread with its own database session (app.run, main.py:135); a session  *)
(* works on the copy of the user row it loaded and writes the attributes   *)
(* it changed when it commits.  Commits of the database are taken to       *)
(* succeed.                                                                *)
(***************************************************************************)
Requests == {"r1", "r2"}

\* class SubscriptionTier (models/user.py:8-12)
SubscriptionTier == {"freemium", "basic", "professional", "enterprise"}

\* return self.monthly_uploads < 3  # Freemium limit   (models/user.py:50)
FreemiumLimit == 3

\* A new user: monthly_uploads 0, last_reset_date the month of creation
\* (models/user.py:25-26).
NewUser(tier, month) ==
    [subscription_tier |-> tier, monthly_uploads |-> 0, last_reset_date |-> month]

\* The multipart body: a file that is accepted, no file (or a file name that
\* is refused), and a file that cannot be written to the upload folder.
UploadedFiles == {"ok", "missing", "unsavable"}

Routes == {"upload_image", "upload_video"}

\* What the analysis call of the inner try block does: it returns a result
\* dict, with or without the key 'overall_result', or it raises.
AnalysisOutcomes == {Ok("pass"), Ok("error"), Ok(Absent), Raise}

NoRequest ==
    [pc |-> "idle", route |-> None, file |-> None, user |-> NewUser("freemium", 0),
     result |-> None, analysis_raised |-> FALSE, status |-> 0]

NoMedia == [stored |-> FALSE, result |-> None]

InFlight(r) == request[r].pc \notin {"idle", "responded"}

\* The response is sent and the session of the request is removed.
Respond(r, status) ==
    [request EXCEPT ![r].pc = "responded", ![r].status = status,
                    ![r].file = None, ![r].user = NoRequest.user]

\* User.can_upload (models/user.py:38-50) on a session's copy of the user:
\* the copy afterwards, whether the session committed, and what is returned.
can_upload(self, month) ==
    IF self.subscription_tier # "freemium"
    THEN [self |-> self, commit |-> FALSE, ret |-> TRUE]
    ELSE LET reset == self.last_reset_date # month
             after == IF reset
                      THEN [self EXCEPT !.monthly_uploads = 0, !.last_reset_date = month]
                      ELSE self
         IN  [self |-> after, commit |-> reset, ret |-> after.monthly_uploads < FreemiumLimit]

\* User.increment_upload_count (models/user.py:52-55): self.monthly_uploads += 1
increment_upload_count(self) == [self EXCEPT !.monthly_uploads = @ + 1]

\* Mutant: the handler of the inner try block lets the exception through.
analysis_except_reraised == Raise

\* except Exception as ai_error: ... = 'error'   (lines 123-126, 199-202)
analysis_except == Ok("error")

\* analysis_result.get('overall_result', 'unknown')   (lines 121, 196)
overall_result_of(analysis_result) ==
    IF analysis_result = Absent THEN "unknown" ELSE analysis_result

\* The inner try block (lines 113-126, 190-202): the result that is put on
\* the media record, or Raise when an exception leaves the block.
analysis_try(outcome) ==
    IF outcome.raised THEN analysis_except ELSE Ok(overall_result_of(outcome.value))

\* A request arrives; the handler loads the inspection and its user into the
\* session of the request (lines 63-64, 144-145).
LoadUser(r) ==
    /\ ~InFlight(r)
    /\ user.subscription_tier = "freemium" \/ user.monthly_uploads < MaxUploads
    /\ \E route \in Routes, file \in UploadedFiles :
          request' = [request EXCEPT ![r] =
                         [pc |-> "check", route |-> route, file |-> file, user |-> user,
                          result |-> None, analysis_raised |-> FALSE, status |-> 0]]
    /\ media' = [media EXCEPT ![r] = NoMedia]
    /\ UNCHANGED <<user, now, accepted, coreVars>>

\* upload_image: if not user.can_upload(): 403 (lines 67-72), the counter
\* being reset and committed first in a new month; upload_video: 403 unless
\* the tier is ENTERPRISE (lines 148-152).
CheckPermission(r) ==
    /\ request[r].pc = "check"
    /\ IF request[r].route = "upload_image"
       THEN LET checked == can_upload(request[r].user, now)
                row == IF checked.commit
                       THEN [user EXCEPT !.monthly_uploads = checked.self.monthly_uploads,
                                         !.last_reset_date = checked.self.last_reset_date]
                       ELSE user
                copy == IF checked.commit THEN row ELSE checked.self
            IN  /\ user' = row
                /\ request' = IF checked.ret
                              THEN [request EXCEPT ![r].user = copy, ![r].pc = "save"]
                              ELSE Respond(r, 403)
       ELSE /\ user' = user
            /\ request' = IF request[r].user.subscription_tier = "enterprise"
                          THEN [request EXCEPT ![r].pc = "save"]
                          ELSE Respond(r, 403)
    /\ UNCHANGED <<media, now, accepted, coreVars>>

\* The file checks (400), file.save and db.session.add of the media record
\* (lines 75-107, 155-187); an exception of file.save reaches the outer
\* except: rollback and 500 (lines 136-138, 211-213).
SaveFile(r) ==
    /\ request[r].pc = "save"
    /\ request' =
          IF request[r].file = "missing" THEN Respond(r, 400)
          ELSE IF request[r].file = "unsavable" THEN Respond(r, 500)
          ELSE [request EXCEPT ![r].pc = IF request[r].route = "upload_image"
                                         THEN "increment" ELSE "analyze"]
    /\ UNCHANGED <<user, media, now, accepted, coreVars>>

\* user.increment_upload_count() (line 110): the session writes its copy of
\* the counter plus one and commits, which also inserts the pending image
\* record; the copy is refreshed from the row afterwards.
IncrementUploadCount(r) ==
    /\ request[r].pc = "increment"
    /\ user' = [user EXCEPT !.monthly_uploads =
                                increment_upload_count(request[r].user).monthly_uploads]
    /\ media' = [media EXCEPT ![r] = [stored |-> TRUE, result |-> None]]
    /\ request' = [request EXCEPT ![r].user = user', ![r].pc = "analyze"]
    /\ UNCHANGED <<now, accepted, coreVars>>

\* The inner try block around the analysis (lines 113-126, 190-202).
AnalyzeUpload(r) ==
    /\ request[r].pc = "analyze"
    /\ \E outcome \in AnalysisOutcomes :
          LET tried == analysis_try(outcome)
          IN  request' =
                 IF tried.raised
                 THEN [Respond(r, 500) EXCEPT ![r].analysis_raised = outcome.raised]
                 ELSE [request EXCEPT ![r].result = tried.value,
                                      ![r].analysis_raised = outcome.raised,
                                      ![r].pc = "commit"]
    /\ UNCHANGED <<user, media, now, accepted, coreVars>>

\* db.session.commit() and the 201 response (lines 128-134, 204-209).
CommitUpload(r) ==
    /\ request[r].pc = "commit"
    /\ media' = [media EXCEPT ![r] = [stored |-> TRUE, result |-> request[r].result]]
    /\ request' = Respond(r, 201)
    /\ accepted' = IF request[r].route = "upload_image" THEN accepted + 1 ELSE accepted
    /\ UNCHANGED <<user, now, coreVars>>

\* The calendar month changes, between requests.
NewMonth ==
    /\ \A r \in Requests : ~InFlight(r)
    /\ now < MaxMonths
    /\ now' = now + 1
    /\ accepted' = 0
    /\ UNCHANGED <<user, media, request, coreVars>>

upload(r) ==
    \/ LoadUser(r)
    \/ CheckPermission(r)
    \/ SaveFile(r)
    \/ IncrementUploadCount(r)
    \/ AnalyzeUpload(r)
    \/ CommitUpload(r)

(***************************************************************************)
(* Calls of the synchronous functions.  Each action is one whole call; the *)
(* record it leaves in `call` holds the arguments and what was returned.   *)
(***************************************************************************)
Idle == call = NoCall /\ \A c \in Calls : pc[c] = "idle"

CheckViolations ==
    /\ Idle
    /\ \E ds \in DetectionLists :
          call' = [fn |-> "check_code_violations", components |-> ds,
                   ret |-> check_code_violations(ds), runs |-> 1]
    /\ UNCHANGED <<code_service, routeVars, videoVars>>

\* The same service object asked again about the same list.
CheckViolationsAgain ==
    /\ call.fn = "check_code_violations" /\ call.runs = 1
    /\ call' = [fn |-> "check_code_violations", components |-> call.components,
                ret |-> call.ret, again |-> check_code_violations(call.components),
                runs |-> 2]
    /\ UNCHANGED <<code_service, routeVars, videoVars>>

CalcAssessment ==
    /\ Idle
    /\ \E comps \in ComponentInputs, vs \in ViolationLists :
          \E comps2 \in ComponentInputs \ {comps}, vs2 \in Variants(vs) :
             call' = [fn |-> "calculate_overall_assessment",
                      components |-> comps, violations |-> vs,
                      ret |-> calculate_overall_assessment(comps, vs),
                      components2 |-> comps2, violations2 |-> vs2,
                      ret2 |-> calculate_overall_assessment(comps2, vs2)]
    /\ UNCHANGED <<code_service, routeVars, videoVars>>

GenRecommendations ==
    /\ Idle
    /\ \E vs \in ViolationLists :
          call' = [fn |-> "_generate_recommendations", violations |-> vs,
                   ret |-> _generate_recommendations(vs)]
    /\ UNCHANGED <<code_service, routeVars, videoVars>>

\* upload_image builds a new ImageAnalysisService for each request
\* (routes/inspection.py:114-115), so the model starts as None.
AnalyzeImage ==
    /\ Idle
    /\ \E env \in ImageEnvs :
          call' = [fn |-> "analyze_image", env |-> env, ret |-> analyze_image(env),
                   model |-> ModelAfter(None, env)]
    /\ UNCHANGED <<code_service, routeVars, videoVars>>

\* query_electrical_code builds a new CodeQueryService for each request
\* (routes/code.py:35-36).
ProcessQuery ==
    /\ Idle
    /\ \E query \in Queries :
          /\ call' = [fn |-> "process_query", query |-> query, self |-> code_service,
                      ret |-> process_query(code_service.nec_database,
                                            code_service.common_patterns, query),
                      runs |-> 1]
          /\ code_service' = process_query_self(code_service, query)
    /\ UNCHANGED <<routeVars, videoVars>>

\* The same service object asked the same query again.
ProcessQueryAgain ==
    /\ call.fn = "process_query" /\ call.runs = 1
    /\ call' = [call EXCEPT !.runs = 2] @@
                [again |-> process_query(code_service.nec_database,
                                         code_service.common_patterns, call.query)]
    /\ code_service' = process_query_self(code_service, call.query)
    /\ UNCHANGED <<routeVars, videoVars>>

SearchSections ==
    /\ Idle
    /\ \E keywords \in KeywordLists :
          call' = [fn |-> "_search_nec_sections", keywords |-> keywords,
                   matches |-> scored_matches(code_service.nec_database, keywords),
                   ret |-> _search_nec_sections(code_service.nec_database, keywords)]
    /\ UNCHANGED <<code_service, routeVars, videoVars>>

GenerateResponse ==
    /\ Idle
    /\ \E relevant_sections \in MatchLists(code_service.nec_database) :
          call' = [fn |-> "_generate_response", relevant_sections |-> relevant_sections,
                   ret |-> _generate_response(code_service.nec_database, "",
                                              relevant_sections),
                   again |-> _generate_response(code_service.nec_database, "",
                                                relevant_sections)]
    /\ UNCHANGED <<code_service, routeVars, videoVars>>

EnhanceResponse ==
    /\ Idle
    /\ \E response_data \in ResponseData, query \in Queries \ {NotAStr} :
          call' = [fn |-> "_enhance_response_with_context", query |-> query,
                   response_data |-> response_data,
                   ret |-> _enhance_response_with_context(response_data, query.text)]
    /\ UNCHANGED <<code_service, routeVars, videoVars>>

Return ==
    /\ call # NoCall
    /\ call' = NoCall
    /\ UNCHANGED <<code_service, routeVars, videoVars>>

\* The upload routes before the first request, for a new user of a tier.
InitRoute(tier) ==
    /\ now = 1
    /\ user = NewUser(tier, 1)
    /\ media = [r \in Requests |-> NoMedia]
    /\ request = [r \in Requests |-> NoRequest]
    /\ accepted = 0

\* The services after construction, with the given contents of the index.
InitServices(db) ==
    /\ code_service = CodeQueryService(db)
    /\ call = NoCall
    /\ files = {}
    /\ pc = [c \in Calls |-> "idle"]
    /\ video = [c \in Calls |-> NoVideo]
    /\ cap = [c \in Calls |-> "none"]
    /\ frame_count = [c \in Calls |-> 0]
    /\ extracted_frames = [c \in Calls |-> <<>>]
    /\ frame_paths = [c \in Calls |-> <<>>]
    /\ frame_analyses = [c \in Calls |-> <<>>]
    /\ analysed = [c \in Calls |-> <<>>]
    /\ written = [c \in Calls |-> {}]
    /\ model = [c \in Calls |-> None]
    /\ result = [c \in Calls |-> NoResult]

\* The state after construction, with the given contents of the index.
InitWith(db) == InitServices(db) /\ InitRoute("freemium")

Init == InitWith(nec_database)

NextImage ==
    \/ CheckViolations
    \/ CheckViolationsAgain
    \/ CalcAssessment
    \/ GenRecommendations
    \/ AnalyzeImage
    \/ Return

SpecImage == Init /\ [][NextImage]_vars

\* The fold applied to a sequence of frame entries with the given results.
FrameResults == {"pass", "fail", "warning", "error", "unknown", Absent}

FrameEntries(results) ==
    [i \in 1..Len(results) |->
        [frame_number |-> (i - 1) * frame_extraction_interval,
         analysis |-> [overall_result |-> results[i]]]]

FoldFrames ==
    /\ Idle
    /\ \E results \in SeqsUpTo(FrameResults, MaxFrameResults) \ {<<>>} :
          call' = [fn |-> "_calculate_video_assessment", results |-> results,
                   ret |-> _calculate_video_assessment(FrameEntries(results))]
    /\ UNCHANGED <<code_service, routeVars, videoVars>>

NextVideo ==
    \/ analyze_video("c1")
    \/ FoldFrames
    \/ Return

SpecVideo == Init /\ [][NextVideo]_vars

\* Two requests in flight, each in its own thread with its own
\* VideoAnalysisService, on videos saved in the same upload folder
\* (routes/inspection.py:21-26, 166-192): their steps interleave freely.
ConcurrentStep(c) ==
    \/ StartVideo(c)
    \/ ReadFrameUpTo(c, MaxFramesConcurrent)
    \/ ExtractRaises(c)
    \/ ReleaseCapture(c)
    \/ FinishExtraction(c)
    \/ AnalyzeFrame(c)
    \/ Aggregate(c)

NextConcurrent == ConcurrentStep("c1") \/ ConcurrentStep("c2")

SpecConcurrent == Init /\ [][NextConcurrent]_vars

\* Upload requests of one user, of any tier, served by two threads.
InitUpload ==
    \E tier \in SubscriptionTier :
        /\ InitServices(nec_database)
        /\ InitRoute(tier)

NextUpload == upload("r1") \/ upload("r2") \/ NewMonth

SpecUpload == InitUpload /\ [][NextUpload]_vars

\* The query service and its steps, over the contents of the index.
InitQuery == \E db \in Indexes : InitWith(db)

NextQuery ==
    \/ ProcessQuery
    \/ ProcessQueryAgain
    \/ SearchSections
    \/ GenerateResponse
    \/ EnhanceResponse
    \/ Return

SpecQuery == InitQuery /\ [][NextQuery]_vars

\* The three entry points, one request at a time.
Next ==
    \/ AnalyzeImage
    \/ analyze_video("c1")
    \/ ProcessQuery
    \/ Return

Spec == Init /\ [][Next]_vars

(***************************************************************************)
(*                              PROPERTIES                                 *)
(***************************************************************************)
HighCount(vs) == Cardinality({i \in 1..Len(vs) : vs[i].severity = "high"})
MediumCount(vs) == Cardinality({i \in 1..Len(vs) : vs[i].severity = "medium"})
LowCount(vs) == Cardinality({i \in 1..Len(vs) : vs[i].severity = "low"})
Verdict(r) == <<r.overall_result, r.confidence>>

\* C1: calculate_overall_assessment returns 'fail' with confidence 0.85 when
\* some violation is of high severity, otherwise 'warning' with 0.70 when more
\* than 2 are of medium severity, otherwise 'pass' with 0.90; and two inputs
\* with the same numbers of high and of medium violations get the same verdict,
\* whatever their components, kinds, order and low-severity violations.
C1_AssessmentLadder ==
    call.fn = "calculate_overall_assessment" =>
        LET vs == call.violations
            vs2 == call.violations2
        IN  /\ HighCount(vs) >= 1 => Verdict(call.ret) = <<"fail", 85>>
            /\ HighCount(vs) = 0 /\ MediumCount(vs) > 2 => Verdict(call.ret) = <<"warning", 70>>
            /\ HighCount(vs) = 0 /\ MediumCount(vs) <= 2 => Verdict(call.ret) = <<"pass", 90>>
            /\ HighCount(vs2) = HighCount(vs) /\ MediumCount(vs2) = MediumCount(vs)
                  => Verdict(call.ret2) = Verdict(call.ret)

\* A 'warning' for three medium violations and a low one, compared with a
\* different list of the same counts and with other components.
C1_Witness ==
    /\ call.fn = "calculate_overall_assessment"
    /\ call.ret.overall_result = "warning"
    /\ LowCount(call.violations) = 1
    /\ call.violations2 # call.violations
    /\ LowCount(call.violations2) = 0
    /\ MediumCount(call.violations2) = MediumCount(call.violations)
    /\ call.components2 # call.components

\* The detections are records of the data model: each carries its type and
\* its properties.
UnprotectedOutlets(ds) ==
    {i \in 1..Len(ds) : ds[i].type = "outlet" /\ ds[i].props \in {"false", "no_key"}}
JunctionBoxes(ds) == {i \in 1..Len(ds) : ds[i].type = "junction_box"}
OfKind(vs, kind) == SelectSeq(vs, LAMBDA v : v.type = kind)

\* C2: check_code_violations produces exactly one 'missing_gfci' violation of
\* severity 'high' (reference NEC 210.8, confidence 0.75) for each detection of
\* type 'outlet' whose gfci_protected property is false or absent, and none for
\* any other detection (protected outlets, gfci_outlet and every other type).
C2_MissingGfciPerUnprotectedOutlet ==
    call.fn = "check_code_violations" /\ WellFormed(call.components) =>
        LET found == OfKind(call.ret, "missing_gfci")
        IN  /\ Len(found) = Cardinality(UnprotectedOutlets(call.components))
            /\ \A i \in 1..Len(found) :
                  /\ found[i].severity = "high"
                  /\ found[i].code_reference = "NEC 210.8"
                  /\ found[i].confidence = 75

\* An outlet without the gfci_protected key, a protected outlet and a
\* gfci_outlet whose property is false: one violation, for the first.
C2_Witness ==
    /\ call.fn = "check_code_violations"
    /\ call.components = <<Detection("outlet", "no_key"), Detection("outlet", "true"),
                           Detection("gfci_outlet", "false")>>
    /\ Len(call.ret) = 1

\* C3: for a detection list with N junction boxes check_code_violations
\* produces exactly N 'potential_overcrowding' violations of severity 'medium',
\* whatever the properties of the boxes, and a second run on the same list
\* gives the same count.
C3_OvercrowdingPerJunctionBox ==
    call.fn = "check_code_violations" /\ WellFormed(call.components) =>
        LET found == OfKind(call.ret, "potential_overcrowding")
            N == Cardinality(JunctionBoxes(call.components))
        IN  /\ Len(found) = N
            /\ \A i \in 1..Len(found) : found[i].severity = "medium"
            /\ call.runs = 2 =>
                  /\ Len(OfKind(call.again, "potential_overcrowding")) = N
                  /\ Len(call.again) = Len(call.ret)

\* Two junction boxes of different properties, checked twice.
C3_Witness ==
    /\ call.fn = "check_code_violations"
    /\ call.runs = 2
    /\ call.components = <<Detection("junction_box", "true"), Detection("switch", "no_key"),
                           Detection("junction_box", "no_key")>>
    /\ Len(call.again) = 2

\* Detection fails when the model cannot be built, the image cannot be
\* decoded, or the detector raises.
DetectionFailed(env) == env.load_raises \/ ~env.decodable \/ env.detector.raised

\* C8: when detection fails for an image, analyze_image does not raise and
\* returns an empty detected_components list and overall_result 'error'
\* (never 'pass', 'fail' or 'warning').
C8_DetectionFailureIsError ==
    call.fn = "analyze_image" /\ DetectionFailed(call.env) =>
        /\ ~call.ret.raised
        /\ call.ret.value.detected_components = <<>>
        /\ call.ret.value.overall_result = "error"

ExpectedSentence(v) ==
    CASE v.type = "missing_gfci" -> GfciSentence
      [] v.type = "potential_overcrowding" -> BoxSentence
      [] v.type = "improper_grounding" -> GroundingSentence
      [] OTHER -> <<"Address ", v.type, " - refer to ",
                    IF v.code_reference = Absent THEN "NEC" ELSE v.code_reference>>

RecommendationsAsClaimed(vs, recs) ==
    /\ recs # <<>>
    /\ vs = <<>> => recs = <<VerifySentence>>
    /\ vs # <<>> =>
          /\ Len(recs) = Len(vs)
          /\ \A i \in 1..Len(vs) : recs[i] = ExpectedSentence(vs[i])

\* C10 as stated: the recommendations of every result that analyze_image
\* returns are never empty: one sentence recommending professional
\* verification with zero violations, otherwise one sentence per violation,
\* the i-th fixed by the i-th violation's kind.
C10_RecommendationsNeverEmpty ==
    call.fn = "analyze_image" =>
        /\ ~call.ret.raised
        /\ RecommendationsAsClaimed(call.ret.value.violations_found,
                                    call.ret.value.recommendations)

\* C10 as amended: that holds of every list _generate_recommendations
\* returns, and so of every result analyze_image returns from its try block;
\* the error record of its except branch has an empty recommendations list.
C10_RecommendationsOfCompletedAnalysis ==
    /\ call.fn = "_generate_recommendations" =>
          RecommendationsAsClaimed(call.violations, call.ret)
    /\ call.fn = "analyze_image" =>
          /\ ~call.ret.raised
          /\ ~call.ret.value.error =>
                RecommendationsAsClaimed(call.ret.value.violations_found,
                                         call.ret.value.recommendations)
          /\ call.ret.value.error => call.ret.value.recommendations = <<>>

\* An analysis that completes with detections and no violation.
C10_Witness ==
    /\ call.fn = "analyze_image"
    /\ ~call.ret.value.error
    /\ call.ret.value.detected_components # <<>>
    /\ call.ret.value.violations_found = <<>>
    /\ call.ret.value.recommendations = <<VerifySentence>>

Returned(c) == pc[c] = "returned"

\* The frame results as the fold reads them: an analysis without an
\* overall_result counts as 'unknown'.
Seen(results) == [i \in 1..Len(results) |-> IF results[i] = Absent THEN "unknown" ELSE results[i]]
Fold(results) == _calculate_video_assessment(FrameEntries(results))

\* C4: over a non-empty sequence of frame results the video result is 'fail'
\* if any is 'fail', else 'warning' if any is 'warning', else 'pass' if all are
\* 'pass', else 'warning'; it does not depend on the order of the frames, and
\* replacing a frame's result by 'fail' leaves a 'fail' video 'fail'.
C4_PessimisticFold ==
    call.fn = "_calculate_video_assessment" =>
        LET rs == call.results
            seen == Seen(rs)
            n == Len(rs)
        IN  /\ (\E i \in 1..n : seen[i] = "fail") => call.ret = "fail"
            /\ (\A i \in 1..n : seen[i] # "fail") /\ (\E i \in 1..n : seen[i] = "warning")
                  => call.ret = "warning"
            /\ (\A i \in 1..n : seen[i] = "pass") => call.ret = "pass"
            /\ (\A i \in 1..n : seen[i] \notin {"fail", "warning"})
                  /\ (\E i \in 1..n : seen[i] # "pass") => call.ret = "warning"
            /\ \A perm \in Permutations(1..n) : Fold([i \in 1..n |-> rs[perm[i]]]) = call.ret
            /\ call.ret = "fail" =>
                  \A i \in 1..n : Fold([rs EXCEPT ![i] = "fail"]) = "fail"

\* [unknown, pass] folds to 'warning'.
C4_Witness ==
    /\ call.fn = "_calculate_video_assessment"
    /\ call.results = <<"unknown", "pass">>
    /\ call.ret = "warning"

\* The extraction ended in the except branch of extract_key_frames.
ExtractionRaised(c) == Returned(c) /\ cap[c] # "released"

\* No frame could be extracted: the video did not open, it decoded to zero
\* frames, or the extraction raised.
NoFrameExtracted(c) ==
    Returned(c) /\ (~video[c].opens \/ frame_count[c] = 0 \/ ExtractionRaised(c))

\* C5: when no frame can be extracted (unreadable video, zero frames, or an
\* exception during extraction) analyze_video returns overall_result 'error',
\* duration 0 and an empty frame_analyses list, and analyses no frame.
C5_NoFramesIsError ==
    NoFrameExtracted("c1") =>
        /\ result["c1"].returned
        /\ result["c1"].overall_result = "error"
        /\ result["c1"].duration = Zero
        /\ result["c1"].frame_analyses = <<>>
        /\ analysed["c1"] = <<>>

\* The extraction raised after two stills were written.
C5_Witness ==
    /\ ExtractionRaised("c1")
    /\ Cardinality(written["c1"]) = 2
    /\ result["c1"].overall_result = "error"

\* C6: on every path by which analyze_video returns, none of the frame files
\* this call wrote to temp_frames still exists.
C6_NoFrameFileLeft ==
    Returned("c1") => \A path \in written["c1"] : ~Exists(path)

\* The still-image analysis of a frame failed: the try block of analyze_image
\* raised on it.
Failed(a) == analyze_image_try(a.env).raised
Succeeded(a) == ~Failed(a)

\* C7: a frame whose still-image analysis fails is skipped: frame_analyses
\* holds, in extraction order, exactly the frames whose analysis succeeded,
\* every frame after a failed one is still analysed, and
\* summary.frames_analyzed counts only the successful ones.
C7_FailedFrameSkipped ==
    Returned("c1") /\ ~result["c1"].error =>
        LET good == SelectSeq(analysed["c1"], Succeeded)
            entries == result["c1"].frame_analyses
        IN  /\ Len(analysed["c1"]) = Len(frame_paths["c1"])
            /\ Len(entries) = Len(good)
            /\ \A i \in 1..Len(good) :
                  i <= Len(entries) /\ entries[i].analysis = analyze_image_try(good[i].env).value
            /\ result["c1"].summary.frames_analyzed = Len(good)

Verdicts == {"pass", "fail", "warning", "error"}

\* C9: analyze_image, analyze_video and process_query never let an exception
\* reach their caller: each returns a record with its result field
\* (overall_result among pass, fail, warning, error for an image and a video;
\* response, references and confidence for a query, with confidence 0.0 and no
\* references when the query processing itself raised).
C9_NoExceptionEscapes ==
    /\ call.fn = "analyze_image" =>
          /\ ~call.ret.raised
          /\ call.ret.value.overall_result \in Verdicts
    /\ Returned("c1") =>
          /\ result["c1"].returned
          /\ result["c1"].overall_result \in Verdicts
    /\ call.fn = "process_query" =>
          /\ ~call.ret.raised
          /\ {"response", "references", "confidence"} \subseteq DOMAIN call.ret.value
          /\ ~call.query.is_str =>
                /\ call.ret.value.confidence = Zero
                /\ call.ret.value.references = <<>>

\* An image that cannot be decoded: the exception of preprocess_image ends
\* in the error record.
C9_Witness ==
    /\ call.fn = "analyze_image"
    /\ ~call.env.decodable
    /\ ~call.ret.raised
    /\ call.ret.value.overall_result = "error"

\* Two quotients that stand for the same number.
Same(x, y) == x.num * y.den = y.num * x.den

IsQuery == call.fn = "process_query" /\ call.query.is_str
QueryText == call.query.text
Answer == call.ret.value

\* The answer of the fast path for a section: confidence 0.85 and that
\* section as the only reference, at relevance 0.85.
FastPathAnswer(r, section) ==
    /\ Same(r.confidence, Ratio(85, 100))
    /\ Len(r.references) = 1
    /\ r.references[1].section = section
    /\ Same(r.references[1].relevance, Ratio(85, 100))

\* C11: every query that contains both "gfci" and "required", in any letter
\* case, is answered by the GFCI fast path: confidence 0.85 and section 210.8
\* as the only reference at relevance 0.85, whatever the index holds.
C11_GfciAndRequiredIsFastPath ==
    IsQuery /\ Contains(lower(QueryText), "gfci") /\ Contains(lower(QueryText), "required")
        => FastPathAnswer(Answer, "210.8")

\* The patterns a query matches, by their position in common_patterns.
Hits(text) == {k \in 1..Len(common_patterns) : re_match(common_patterns[k], text)}
Earliest(hits) == CHOOSE k \in hits : \A m \in hits : k <= m

\* C12: the fast path comes before the keyword search and the first pattern
\* in the fixed order wins: a query that matches one or more patterns gets the
\* template and the reference of the earliest of them at confidence 0.85, and
\* nothing of the index or of the query's keywords shows in the references or
\* in the confidence.
C12_EarliestPatternWins ==
    IsQuery /\ Hits(QueryText) # {} =>
        LET first == common_patterns[Earliest(Hits(QueryText))]
        IN  /\ Answer.response[1] = <<first.response_template>>
            /\ FastPathAnswer(Answer, first.primary_reference)

\* A query matching the GFCI and the grounding pattern, with the grounding
\* words first, asked of an index that has no entry 210.8.
C12_Witness ==
    /\ IsQuery
    /\ Hits(QueryText) = {1, 2}
    /\ Contains(QueryText, "grounding wire size GFCI")
    /\ Lookup(call.self.nec_database, "210.8") = {}
    /\ call.self.nec_database # <<>>
    /\ FastPathAnswer(Answer, "210.8")

\* No token of the text survives filtering: each is a stop word or shorter
\* than 3 characters.
NoTokenSurvives(text) ==
    LET tokens == findall_words(lower(text), "", <<>>)
    IN  \A i \in 1..Len(tokens) : tokens[i] \in stop_words \/ Len(tokens[i]) < 3

NothingFound(r) == Same(r.confidence, Ratio(1, 10)) /\ r.references = <<>>

\* C13: a query that matches no pattern gets confidence 0.1 and no references
\* when no token survives filtering, and also when tokens survive but no entry
\* of the index scores above 0.
C13_NothingToCite ==
    IsQuery /\ Hits(QueryText) = {} =>
        /\ NoTokenSurvives(QueryText) => NothingFound(Answer)
        /\ ( /\ ~NoTokenSurvives(QueryText)
             /\ \A i \in 1..Len(call.self.nec_database) :
                   RawScore(_extract_keywords(QueryText),
                            call.self.nec_database[i].keywords) = 0 )
           => NothingFound(Answer)

\* "required" alone: a keyword survives and no section of the full index
\* scores.
C13_Witness ==
    /\ IsQuery
    /\ Hits(QueryText) = {}
    /\ _extract_keywords(QueryText) # <<>>
    /\ call.self.nec_database = nec_database
    /\ NothingFound(Answer)

IsSearch == call.fn = "_search_nec_sections"
Index == code_service.nec_database

\* The score the scoring rule is stated to give one pair, and its sum over
\* all pairs.
StatedPairScore(keyword, section_keyword) ==
    IF keyword = section_keyword THEN 2
    ELSE IF Contains(section_keyword, keyword) \/ Contains(keyword, section_keyword) THEN 1
    ELSE 0

RECURSIVE StatedSum(_, _, _)
StatedSum(keywords, section_keywords, k) ==
    IF k > Len(keywords) * Len(section_keywords) THEN 0
    ELSE StatedPairScore(keywords[((k - 1) \div Len(section_keywords)) + 1],
                         section_keywords[((k - 1) % Len(section_keywords)) + 1])
         + StatedSum(keywords, section_keywords, k + 1)

\* C14: the raw score of an entry is the sum over all (token, keyword) pairs
\* of 2 for equal strings, 1 for different strings one of which contains the
\* other, 0 otherwise; the reported relevance is that sum divided by (number
\* of tokens + number of keywords of the entry).
C14_ScoreAsStated ==
    IsSearch =>
        \A i \in 1..Len(call.ret) :
           LET section_keywords == SectionOf(Index, call.ret[i].section).keywords
           IN  Same(call.ret[i].score,
                    Ratio(StatedSum(call.keywords, section_keywords, 1),
                          Len(call.keywords) + Len(section_keywords)))

\* The place of a section in the index.
Place(id) == CHOOSE p \in Lookup(Index, id) : TRUE
Cited(ms) == {ms[i].section : i \in 1..Len(ms)}

\* C15: the match list has at most 3 entries, each with a score above 0, in
\* non-increasing order of normalized score with equal scores in the order of
\* the index, and no entry left out scores strictly more than one included.
C15_TopThreeStable ==
    IsSearch =>
        LET ret == call.ret
        IN  /\ Len(ret) <= 3
            /\ \A i \in 1..Len(ret) : ret[i].score.num > 0 /\ ret[i].score.den > 0
            /\ \A i, j \in 1..Len(ret) :
                  i < j => /\ ~Greater(ret[j].score, ret[i].score)
                           /\ Same(ret[i].score, ret[j].score)
                                 => Place(ret[i].section) < Place(ret[j].section)
            /\ \A k \in 1..Len(call.matches) :
                  call.matches[k].section \notin Cited(ret) =>
                     \A i \in 1..Len(ret) : ~Greater(call.matches[k].score, ret[i].score)

\* Four sections score; the three returned share one score and stand in the
\* order of the index, and the fourth, of a smaller score, is left out.
C15_Witness ==
    /\ IsSearch
    /\ Len(call.matches) = 4
    /\ Len(call.ret) = 3
    /\ Same(call.ret[1].score, call.ret[3].score)
    /\ \E k \in 1..4 : /\ call.matches[k].section \notin Cited(call.ret)
                       /\ Place(call.matches[k].section) < Place(call.ret[3].section)

BreakerExample == "What size breaker do I need for a 20 amp circuit?"

Member(x, seq) == \E i \in 1..Len(seq) : seq[i] = x

\* C16: a token equal to a keyword of an entry gives that entry a score above
\* 0, for a keyword list and for the keywords of a query that matches no
\* pattern; the breaker example matches no pattern, has the keyword
\* "breaker", and gets entry 240.21 among its references at a relevance
\* above 0.
C16_EqualTokenScores ==
    /\ IsSearch =>
          \A i \in 1..Len(Index) :
             (\E t \in 1..Len(call.keywords) : Member(call.keywords[t], Index[i].keywords))
                => \E k \in 1..Len(call.matches) :
                      /\ call.matches[k].section = Index[i].id
                      /\ call.matches[k].score.num > 0
    /\ IsQuery /\ Hits(QueryText) = {} =>
          LET keywords == _extract_keywords(QueryText)
          IN  \A i \in 1..Len(Index) :
                 (\E t \in 1..Len(keywords) : Member(keywords[t], Index[i].keywords))
                    => RawScore(keywords, Index[i].keywords) > 0
    /\ IsQuery /\ QueryText = BreakerExample /\ Index = nec_database =>
          /\ Hits(QueryText) = {}
          /\ Member("breaker", _extract_keywords(QueryText))
          /\ \E i \in 1..Len(Answer.references) :
                /\ Answer.references[i].section = "240.21"
                /\ Answer.references[i].relevance.num > 0

C16_Witness ==
    /\ IsQuery
    /\ QueryText = BreakerExample
    /\ Index = nec_database
    /\ \E i \in 1..Len(Answer.references) : Answer.references[i].section = "240.21"

IsGenerate == call.fn = "_generate_response" /\ call.relevant_sections # <<>>

\* C17: for a non-empty match list the confidence of _generate_response is
\* min(1.2 x relevance of the first match, 0.95); so an answer of the keyword
\* path has a confidence above 0, at most 0.95 and never 1.0, also when the
\* primary relevance is 0.8 or more.
C17_ConfidenceCapped ==
    /\ IsGenerate =>
          LET scaled == Ratio(12 * call.relevant_sections[1].score.num,
                              10 * call.relevant_sections[1].score.den)
          IN  IF Greater(scaled, Ratio(95, 100))
              THEN Same(call.ret.confidence, Ratio(95, 100))
              ELSE Same(call.ret.confidence, scaled)
    /\ IsQuery /\ Hits(QueryText) = {} =>
          /\ Answer.confidence.num > 0 /\ Answer.confidence.den > 0
          /\ ~Greater(Answer.confidence, Ratio(95, 100))
          /\ ~Same(Answer.confidence, Ratio(1, 1))

\* A first match of relevance 0.8: 1.2 x 0.8 is above the cap.
C17_Witness ==
    /\ IsGenerate
    /\ Same(call.relevant_sections[1].score, Ratio(8, 10))
    /\ Same(call.ret.confidence, Ratio(95, 100))

\* C18: for a match list m1..mk the references are m1 at its relevance, one
\* reference per subsection of m1, in the order of the index, at 0.9 x m1's
\* relevance, then m2..mk in rank order at their own scores: 1 + (number of
\* subsections of m1) + (k - 1) entries, none for a subsection of m2..mk.
C18_ReferenceOrder ==
    IsGenerate =>
        LET ms == call.relevant_sections
            refs == call.ret.references
            subsections == SectionOf(Index, ms[1].section).subsections
            n == Len(subsections)
        IN  /\ Len(refs) = 1 + n + (Len(ms) - 1)
            /\ refs[1].section = ms[1].section
            /\ Same(refs[1].relevance, ms[1].score)
            /\ \A i \in 1..n :
                  /\ refs[1 + i].section = subsections[i]
                  /\ Same(refs[1 + i].relevance,
                          Ratio(9 * ms[1].score.num, 10 * ms[1].score.den))
            /\ \A j \in 2..Len(ms) :
                  /\ refs[n + j].section = ms[j].section
                  /\ Same(refs[n + j].relevance, ms[j].score)

\* Section 210.8 first, with its two subsections, and two more matches, the
\* last one 210.8 again: five references.
C18_Witness ==
    /\ IsGenerate
    /\ Len(call.relevant_sections) = 3
    /\ call.relevant_sections[1].section = "210.8"
    /\ call.relevant_sections[3].section = "210.8"
    /\ Len(call.ret.references) = 5
    /\ call.ret.references[2].section = "210.8(A)"

\* The advisory sentences a query calls for: one per family of which the
\* lower-cased query contains a term, in the order install, GFCI, sizing.
Families ==
    <<[terms |-> {"install", "installation", "how to"}, advisory |-> PracticalTip],
      [terms |-> {"gfci", "ground fault"}, advisory |-> SafetyNote],
      [terms |-> {"wire size", "conductor size", "ampacity"}, advisory |-> SizingNote]>>

Advisories == {Families[f].advisory : f \in 1..Len(Families)}

ExpectedAdvisories(text) ==
    LET called == SelectSeq(Families, LAMBDA f : \E t \in f.terms : Contains(lower(text), t))
    IN  [i \in 1..Len(called) |-> called[i].advisory]

\* The text is a body without advisory sentence followed by exactly the
\* advisory sentences the query calls for.
EndsWithAdvisories(response, text) ==
    LET expected == ExpectedAdvisories(text)
        body == Len(response) - Len(expected)
    IN  /\ body >= 1
        /\ \A i \in 1..Len(expected) : response[body + i] = expected[i]
        /\ \A i \in 1..body : response[i] \notin Advisories

IsEnhance == call.fn = "_enhance_response_with_context"

\* What _enhance_response_with_context does to the response data it is given.
AdvisoriesAppended ==
    IsEnhance =>
        /\ call.ret.response = call.response_data.response \o ExpectedAdvisories(QueryText)
        /\ call.ret.references = call.response_data.references
        /\ call.ret.confidence = call.response_data.confidence

\* C19 as stated: every answer of the fast path and of the keyword path, with
\* ranked matches or none, ends with exactly the advisory sentences of the
\* families the query contains a term of, each at most once, in the order
\* install, GFCI, sizing, and the step leaves references and confidence alone.
C19_AdvisoriesOnEveryAnswer ==
    /\ AdvisoriesAppended
    /\ IsQuery => EndsWithAdvisories(Answer.response, QueryText)

\* C19 as amended: the same for the answers of the fast path and for those
\* _generate_response composes from the keywords of the query; the answer to
\* a query without surviving token carries no advisory sentence.
C19_AdvisoriesOnComposedAnswers ==
    /\ AdvisoriesAppended
    /\ IsQuery /\ (Hits(QueryText) # {} \/ ~NoTokenSurvives(QueryText))
          => EndsWithAdvisories(Answer.response, QueryText)
    /\ IsQuery /\ Hits(QueryText) = {} /\ NoTokenSurvives(QueryText)
          => \A i \in 1..Len(Answer.response) : Answer.response[i] \notin Advisories

\* A fast-path answer to a query of all three families: the template and the
\* three sentences.
C19_Witness ==
    /\ IsQuery
    /\ Hits(QueryText) # {}
    /\ Len(ExpectedAdvisories(QueryText)) = 3
    /\ Len(Answer.response) = 4
    /\ Answer.response[4] = SizingNote

C22_EveryThirtiethFrame ==
    Returned("c1") /\ ~ExtractionRaised("c1") /\ frame_count["c1"] > 0 =>
        LET T == frame_count["c1"]
            entries == result["c1"].frame_analyses
        IN  /\ frame_paths["c1"] = [k \in 1..((T + 29) \div 30) |-> 30 * (k - 1)]
            /\ Len(entries) = Len(frame_paths["c1"])
            /\ \A k \in 1..Len(entries) :
                  /\ entries[k].frame_number = 30 * (k - 1)
                  /\ entries[k].frame_number = analysed["c1"][k].path
                  /\ Same(entries[k].timestamp, Ratio(k - 1, 1))

\* 61 frames at a reported 25 frames per second: stills 0, 30 and 60, at
\* 0, 1 and 2 seconds.
C22_Witness ==
    /\ Returned("c1")
    /\ frame_count["c1"] = 61
    /\ video["c1"].fps = 25
    /\ Len(result["c1"].frame_analyses) = 3
    /\ result["c1"].frame_analyses[3].frame_number = 60
    /\ Same(result["c1"].frame_analyses[3].timestamp, Ratio(2, 1))

\* C23: for a video of T > 0 decoded frames whose container reports the frame
\* rate f, analyze_video returns duration T / f when f > 0 and duration 0 when
\* f is 0 or negative.
C23_DurationFromReportedRate ==
    Returned("c1") /\ ~ExtractionRaised("c1") /\ frame_count["c1"] > 0 =>
        IF video["c1"].fps > 0
        THEN Same(result["c1"].duration, Ratio(frame_count["c1"], video["c1"].fps))
        ELSE Same(result["c1"].duration, Zero)

\* C27: when at least one frame was extracted and the analysis of every
\* extracted frame failed, analyze_video returns overall_result 'error'.
C27_AllFramesFailedIsError ==
    ( /\ Returned("c1")
      /\ Len(frame_paths["c1"]) >= 1
      /\ Len(analysed["c1"]) = Len(frame_paths["c1"])
      /\ \A i \in 1..Len(analysed["c1"]) : Failed(analysed["c1"][i]) )
    => result["c1"].overall_result = "error"

\* C28: the capture handle is used only while it is open: the frame rate is
\* read before the handle is released, and a handle that was opened has been
\* released when extract_key_frames is left, also when the extraction raised.
C28_HandleUsedWhileOpen ==
    /\ pc["c1"] = "fps" /\ video["c1"].opens => cap["c1"] = "open"
    /\ pc["c1"] \in {"analyze", "returned"} /\ video["c1"].opens => cap["c1"] = "released"

\* What each detection yields when it is checked on its own, in list order.
RECURSIVE PerDetection(_)
PerDetection(ds) ==
    IF ds = <<>> THEN <<>>
    ELSE check_code_violations(<<Head(ds)>>) \o PerDetection(Tail(ds))

RuledTypes == {"outlet", "junction_box"}
OnlyRuled(ds) == SelectSeq(ds, LAMBDA d : d.type \in RuledTypes)

\* C25: the rule engine is additive and type-local: the violation list of a
\* detection list is the in-order concatenation of what each detection yields
\* on its own, its length is (outlets without GFCI protection) + (junction
\* boxes), and the detections of every other type, known or unknown, yield
\* nothing and leave the violations of the others as they are.
C25_AdditiveTypeLocal ==
    call.fn = "check_code_violations" /\ WellFormed(call.components) =>
        LET ds == call.components
        IN  /\ call.ret = PerDetection(ds)
            /\ Len(call.ret) = Cardinality(UnprotectedOutlets(ds))
                                 + Cardinality(JunctionBoxes(ds))
            /\ \A i \in 1..Len(ds) :
                  ds[i].type \notin RuledTypes => check_code_violations(<<ds[i]>>) = <<>>
            /\ call.ret = check_code_violations(OnlyRuled(ds))

\* A junction box, a detection of an unknown type and an unprotected outlet:
\* the overcrowding violation, then the missing GFCI one.
C25_Witness ==
    /\ call.fn = "check_code_violations"
    /\ call.components = <<Detection("junction_box", "no_key"),
                           Detection("solar_inverter", "false"),
                           Detection("outlet", "false")>>
    /\ call.ret = <<potential_overcrowding, missing_gfci>>

HasUnprotectedOutlet(ds) ==
    \E i \in 1..Len(ds) :
        /\ ds[i].type = "outlet"
        /\ ds[i].props \in {"false", "no_key"}

One == Ratio(1, 1)
InUnitInterval(x) == ~Greater(Zero, x) /\ ~Greater(x, One)

\* C30: relevance is a normalized measure: the relevance of every match
\* _search_nec_sections returns and of every reference process_query returns
\* lies in [0, 1], also for a query that repeats a token found in several
\* keywords of one entry ('box' in 'box fill', 'junction box', 'outlet box').
C30_RelevanceInUnitInterval ==
    /\ IsSearch => \A i \in 1..Len(call.ret) : InUnitInterval(call.ret[i].score)
    /\ IsQuery =>
          \A i \in 1..Len(Answer.references) : InUnitInterval(Answer.references[i].relevance)

\* C21: concurrent video analyses are independent: under every interleaving
\* of two analyze_video calls on videos of the same upload directory, each
\* call analyses the frame files it wrote itself, never a file the other
\* call wrote or wrote over, nor one the other call has removed.
C21_AnalysesOwnFrames ==
    \A c \in Calls : \A i \in 1..Len(analysed[c]) : analysed[c][i].by = c

Responded(r) == request[r].pc = "responded"
ErrorRecord == [stored |-> TRUE, result |-> "error"]

\* C24: in upload_image and upload_video, when the analysis call raises, the
\* request is still answered 201 and the media record is committed with its
\* result field 'error'; the failure of the analysis causes no rollback and
\* no 500 response.
C24_AnalysisFailureStillSucceeds ==
    \A r \in Requests :
        /\ request[r].pc = "commit" /\ request[r].analysis_raised =>
              request[r].result = "error"
        /\ Responded(r) /\ request[r].analysis_raised =>
              /\ request[r].status = 201
              /\ media[r] = ErrorRecord

\* An image upload and a video upload of an enterprise user, both answered
\* after their analysis raised.
C24_Witness ==
    /\ Responded("r1") /\ request["r1"].route = "upload_image"
    /\ Responded("r2") /\ request["r2"].route = "upload_video"
    /\ \A r \in Requests :
          /\ request[r].analysis_raised
          /\ request[r].status = 201
          /\ media[r] = ErrorRecord

Quiescent == \A r \in Requests : ~InFlight(r)

\* C29: for a freemium user, whatever the interleaving of upload_image
\* requests, monthly_uploads never exceeds 3 and at most 3 uploads are
\* accepted in a calendar month; every accepted upload adds exactly one to
\* the counter, so that between requests the counter, once it was reset for
\* the month, equals the number of uploads accepted in the month.
C29_QuotaHolds ==
    user.subscription_tier = "freemium" =>
        /\ user.monthly_uploads <= FreemiumLimit
        /\ accepted <= FreemiumLimit
        /\ Quiescent /\ user.last_reset_date = now => user.monthly_uploads = accepted

====
